---- MODULE Spec2Model ----
(***************************************************************************)
(* Model of oci_lb_certbot (src/main.py): the ACME challenge handler       *)
(* (ACMEHandler.do_GET), the output placement policy                        *)
(* (ensure_output_dir_safe) and the issuance run (create_cert).             *)
(*                                                                          *)
(* Strings the code searches or splits (request paths, file names) are      *)
(* sequences of atoms; "/" is an atom of its own, so that `in`,             *)
(* startswith, lstrip and the splitting into path components are computed   *)
(* as the code computes them.  A file name is the sequence of atoms between *)
(* two "/" (privkey.pem is <<"privkey", ".pem">>); a filesystem path is the *)
(* sequence of the names from the root.                                     *)
(***************************************************************************)
EXTENDS Integers, Sequences, FiniteSets, TLC

VARIABLES
    allowed_lb_ips, \* ACMEHandler.allowed_lb_ips
    webroot,        \* create_cert's webroot argument, a path string
    dirs,           \* the directories of the filesystem
    files,          \* the regular files of the filesystem: path -> bytes
    pc,             \* position of the run in create_cert
    server,         \* the HTTPServer: "none", "serving", "shutdown", "closed"
    req,            \* the request the handler is given
    resp,           \* what the handler sent for it
    output_dir,     \* create_cert's output_dir argument, a path string
    wait_seconds,   \* create_cert's wait_seconds argument
    allow_in_webroot, \* ensure_output_dir_safe's allow_in_webroot argument
    out,            \* the directory ensure_output_dir_safe returned
    placement,      \* how it was chosen: "none", "requested", "substituted", "fallback"
    readiness,      \* what wait_for_server returned: "none", "ready", "timedout"
    thread,         \* the serving thread: "none", "running", "exited"
    starts,         \* number of servers started by the run
    stops,          \* number of server.shutdown() calls
    issuer_calls,   \* number of subprocess.run(cmd) calls
    exit_code,      \* <<the issuer's exit code>>, <<>> before it exits
    copied,         \* create_cert's list `copied`
    manifest,       \* the content of <dest>/lb-config.json
    gitignore,      \* the file ./.gitignore
    modes,          \* permission bits of the files and directories chmod'ed or copied
    exc,            \* the exception in flight in create_cert's try block
    result,         \* how create_cert ended: "running", "returned", "raised"
    warned,         \* the no-cert-files warning was printed
    shutdown_request, \* the server's shutdown flag, read by the serve_forever loop
    is_shut_down,   \* the server's event, set when the serve_forever loop has ended
    chmod_failed,   \* some chmod of _secure_cert_files failed and was swallowed
    interrupts,     \* interrupt signals delivered to a foreground server
    gi_prev,        \* the text of ./.gitignore before the last update
    gi_updates,     \* number of ignore-list updates that ran to their end
    now,            \* time.time(), in seconds
    timeout,        \* wait_for_server's timeout argument
    interval,       \* wait_for_server's interval argument
    deadline,       \* wait_for_server's deadline
    up_at,          \* the time from which a listener answers on the port
    ready           \* what wait_for_server returned: "none", "true", "false"

fsVars == <<dirs, files, modes>>
argVars == <<allowed_lb_ips, webroot, output_dir, wait_seconds, allow_in_webroot>>
gateVars == <<req, resp>>
serverVars == <<server, thread, starts, stops>>
placeVars == <<out, placement>>
issueVars == <<issuer_calls, exit_code, copied, manifest, gitignore, warned>>
ctlVars == <<pc, exc, result, readiness>>
loopVars == <<shutdown_request, is_shut_down>>
histVars == <<chmod_failed, gi_prev, gi_updates, interrupts>>
waitVars == <<now, timeout, interval, deadline, up_at, ready>>
vars == <<fsVars, argVars, gateVars, serverVars, placeVars, issueVars, ctlVars,
          loopVars, histVars, waitVars>>

----------------------------------------------------------------------------
(* Bounds *)

\* number of path components a request carries after the challenge prefix
MaxSegs == 4
\* number of path components of a request outside the challenge prefix
MaxPlainSegs == 2
\* latest second at which the listener of a readiness wait comes up
MaxUpAt == 8
\* number of ignore-list updates in a row
MaxUpdates == 2
\* number of times the owner of a server handle stops it
MaxStops == 2

----------------------------------------------------------------------------
(* Strings and paths *)

Name(a) == <<a>>
Parent == Name("..")
Dot == Name(".")
PrivkeyPem == <<"privkey", ".pem">>

\* p in s, for strings
Contains(p, s) ==
    \E i \in 1..(Len(s) - Len(p) + 1) : SubSeq(s, i, i + Len(p) - 1) = p

\* s.startswith(p)
StartsWith(s, p) == Len(s) >= Len(p) /\ SubSeq(s, 1, Len(p)) = p

\* s.lstrip('/')
RECURSIVE LStripSlash(_)
LStripSlash(s) ==
    IF s # <<>> /\ Head(s) = "/" THEN LStripSlash(Tail(s)) ELSE s

\* s.split('/'): the components between the separators, empty ones included
RECURSIVE SplitFrom(_, _, _)
SplitFrom(s, cur, acc) ==
    IF s = <<>> THEN Append(acc, cur)
    ELSE IF Head(s) = "/" THEN SplitFrom(Tail(s), <<>>, Append(acc, cur))
    ELSE SplitFrom(Tail(s), Append(cur, Head(s)), acc)

SplitSlash(s) == SplitFrom(s, <<>>, <<>>)

\* pathlib keeps '..' and drops the empty and the '.' components
IsRealPart(n) == n # <<>> /\ n # Dot
PureParts(s) == SelectSeq(SplitSlash(s), IsRealPart)

\* the string of the components joined by "/"
RECURSIVE JoinSlash(_)
JoinSlash(segs) ==
    IF segs = <<>> THEN <<>>
    ELSE IF Len(segs) = 1 THEN segs[1]
    ELSE segs[1] \o <<"/">> \o JoinSlash(Tail(segs))

DirName(p) == IF p = <<>> THEN <<>> ELSE SubSeq(p, 1, Len(p) - 1)

\* Path.parents
Parents(p) == {SubSeq(p, 1, k) : k \in 0..(Len(p) - 1)}

\* Path.resolve() of parts taken from the directory `base` (no symlinks):
\* '..' drops the last component and stays at the root
RECURSIVE Normalize(_, _)
Normalize(base, parts) ==
    IF parts = <<>> THEN base
    ELSE IF Head(parts) = Parent THEN Normalize(DirName(base), Tail(parts))
    ELSE IF IsRealPart(Head(parts)) THEN Normalize(Append(base, Head(parts)), Tail(parts))
    ELSE Normalize(base, Tail(parts))

\* the process's working directory
Cwd == <<Name("srv"), Name("app")>>
Home == <<Name("home"), Name("opc")>>

\* a path string is absolute when it starts with "/"
Resolve(s) ==
    IF s # <<>> /\ Head(s) = "/" THEN Normalize(<<>>, SplitSlash(s))
    ELSE Normalize(Cwd, SplitSlash(s))

\* mkdir(parents=True, exist_ok=True)
MkdirP(p) == Parents(p) \cup {p}

WellKnown == Name(".well-known")
AcmeChallenge == Name("acme-challenge")

ChallengeDir(root) == root \o <<WellKnown, AcmeChallenge>>

\* the kernel's path walk from the directory `cur`: every component but the
\* last must be a directory, '..' is the parent directory
RECURSIVE Walk(_, _, _, _)
Walk(cur, parts, ds, fs) ==
    IF parts = <<>> THEN [ok |-> TRUE, path |-> cur]
    ELSE IF cur \notin ds THEN [ok |-> FALSE, path |-> cur]
    ELSE IF Head(parts) = Parent THEN Walk(DirName(cur), Tail(parts), ds, fs)
    ELSE LET nxt == Append(cur, Head(parts)) IN
         IF nxt \in ds \/ nxt \in DOMAIN fs
         THEN Walk(nxt, Tail(parts), ds, fs)
         ELSE [ok |-> FALSE, path |-> nxt]

----------------------------------------------------------------------------
(* ACMEHandler.do_GET *)

DenyPatterns ==
    { <<"/", "certs">>, <<"/", "letsencrypt">>, <<".pem">>, <<"/", ".git">> }

ChallengePrefix == <<"/", ".well-known", "/", "acme-challenge", "/">>

Denied(path) == \E p \in DenyPatterns : Contains(p, path)

\* statuses: the status lines sent; raised: the handler ended by an exception
Response(st, ct, b, r) == [statuses |-> st, ctype |-> ct, body |-> b, raised |-> r]

NoResponse == Response(<<>>, "", "", FALSE)

\* file_path = Path('.') / self.path.lstrip('/')
FilePath(path, ds, fs) == Walk(Cwd, PureParts(LStripSlash(path)), ds, fs)

ServeChallenge(path, ds, fs) ==
    LET f == FilePath(path, ds, fs) IN
    IF StartsWith(path, ChallengePrefix) /\ f.ok
    THEN IF f.path \in DOMAIN fs
         THEN Response(<<200>>, "text/plain", fs[f.path], FALSE)
         \* open() of a directory raises after the status and headers went out
         ELSE Response(<<200>>, "text/plain", "", TRUE)
    ELSE Response(<<404>>, "", "", FALSE)

do_GET_ProbeFirst(path, client, lb, ds, fs) ==
    IF client \in lb THEN Response(<<200>>, "text/plain", "OK", FALSE)
    ELSE IF Denied(path) THEN Response(<<404>>, "", "", FALSE)
    ELSE ServeChallenge(path, ds, fs)

do_GET_ChallengeFirst(path, client, lb, ds, fs) ==
    IF Denied(path) THEN Response(<<404>>, "", "", FALSE)
    ELSE IF ServeChallenge(path, ds, fs).statuses = <<200>>
         THEN ServeChallenge(path, ds, fs)
    ELSE IF client \in lb THEN Response(<<200>>, "text/plain", "OK", FALSE)
    ELSE Response(<<404>>, "", "", FALSE)

do_GET(path, client, lb, ds, fs) ==
    IF Denied(path) THEN Response(<<404>>, "", "", FALSE)
    ELSE IF client \in lb THEN Response(<<200>>, "text/plain", "OK", FALSE)
    ELSE ServeChallenge(path, ds, fs)

----------------------------------------------------------------------------
(* The requests and the filesystem the handler is exercised on *)

LbIp == "10.0.0.5"
Clients == {LbIp, "198.51.100.7"}

Secret == Name("secret")
Tok == Name("tok")
Certs == Name("certs")

SuffixNames == {Parent, Tok, Secret, Certs, PrivkeyPem, <<>>}
PlainNames == {WellKnown, AcmeChallenge, Tok, Certs, Secret, Name(".git"),
               Name("letsencrypt"), <<"index", ".html">>}

RECURSIVE SegSeqs(_, _)
SegSeqs(names, n) ==
    IF n = 0 THEN {<<>>}
    ELSE LET S == SegSeqs(names, n - 1) IN
         S \cup {Append(s, x) : s \in {t \in S : Len(t) = n - 1}, x \in names}

RequestPaths ==
    {ChallengePrefix \o JoinSlash(s) : s \in SegSeqs(SuffixNames, MaxSegs)}
    \cup {<<"/">> \o JoinSlash(s) : s \in SegSeqs(PlainNames, MaxPlainSegs)}

NoRequest == [path |-> <<>>, client |-> "", handled |-> FALSE]

WebrootArgs == {<<".">>, <<"/", "srv", "/", "www">>}

ChallengeBytes == {"abc", "xyz"}

InitDirs == {<<>>, <<Name("srv")>>, Cwd, Append(Cwd, Certs)}
InitFiles ==
    (<<Name("srv"), Secret>> :> "topsecret")
    @@ (<<Name("srv"), Name("app"), Certs, PrivkeyPem>> :> "KEY")


----------------------------------------------------------------------------
(* Output placement: _is_within, ensure_output_dir_safe *)

NoPath == <<Name("<none>")>>

\* on resolved paths
IsWithin(child, parent) == parent = child \/ parent \in Parents(child)

Fallback == Home \o <<Name(".oci_lb_certbot"), Certs>>

\* the directory chosen before it is created
RequestedOut(w, o, allow) ==
    LET webroot_p == Resolve(w)
        out_p == Resolve(o)
    IN IF IsWithin(out_p, webroot_p) /\ ~allow
       THEN Append(DirName(webroot_p), Certs)
       ELSE out_p

Substituted(w, o, allow) == IsWithin(Resolve(o), Resolve(w)) /\ ~allow

\* mk is what out_p.mkdir does: "ok", "denied" (PermissionError) or "error"
\* (another OSError, which is not caught); fb is what fallback.mkdir does
MkOutcomes(p, ds) == IF p \in ds THEN {"ok"} ELSE {"ok", "denied", "error"}

EnsureRaises(mk, fb) == mk = "error" \/ (mk = "denied" /\ fb # "ok")

ensure_output_dir_safe(w, o, allow, mk) ==
    IF mk = "denied" THEN Fallback ELSE RequestedOut(w, o, allow)

PlacementOf(w, o, allow, mk) ==
    IF mk = "denied" THEN "fallback"
    ELSE IF Substituted(w, o, allow) THEN "substituted"
    ELSE "requested"

\* os.chmod(p, m), best effort: the mode is set when the call succeeds
Chmod(ms, p, m, ok) == IF ok THEN [x \in DOMAIN ms \cup {p} |-> IF x = p THEN m ELSE ms[x]] ELSE ms

ModeOf(ms, p, dflt) == IF p \in DOMAIN ms THEN ms[p] ELSE dflt

\* the effect of a call that returns: the directory exists, chmod 0o700 tried
Placed(mk, chmod_ok) ==
    LET o == ensure_output_dir_safe(webroot, output_dir, allow_in_webroot, mk) IN
    /\ out' = o
    /\ placement' = PlacementOf(webroot, output_dir, allow_in_webroot, mk)
    /\ dirs' = dirs \cup MkdirP(o)
    /\ modes' = Chmod(modes, o, "700", chmod_ok)
    /\ UNCHANGED files

\* ensure_output_dir_safe called on its own
PlaceCall ==
    /\ pc = "place_call"
    /\ \E mk \in MkOutcomes(RequestedOut(webroot, output_dir, allow_in_webroot), dirs),
          fb \in {"ok", "error"}, chmod_ok \in BOOLEAN :
         /\ mk # "denied" => fb = "ok"
         /\ IF EnsureRaises(mk, fb)
            THEN /\ pc' = "place_raised"
                 /\ UNCHANGED <<fsVars, placeVars>>
            ELSE /\ pc' = "place_return"
                 /\ Placed(mk, chmod_ok)
    /\ UNCHANGED <<argVars, gateVars, serverVars, issueVars, exc, result, readiness>>
    /\ UNCHANGED <<loopVars, histVars, waitVars>>

----------------------------------------------------------------------------
(* create_cert *)

Domain == Name("example.com")

ArtifactNames == << <<"fullchain", ".pem">>, PrivkeyPem, <<"chain", ".pem">>, <<"cert", ".pem">> >>
ArtifactSet == {ArtifactNames[i] : i \in 1..Len(ArtifactNames)}

ConfigDir(o) == Append(o, Name("letsencrypt"))
WorkDir(o) == Append(o, Name("letsencrypt-work"))
LogsDir(o) == Append(o, Name("letsencrypt-logs"))
LiveDir(o) == ConfigDir(o) \o <<Name("live"), Domain>>
Dest(o) == Append(o, Domain)

\* an uncaught exception outside the try block leaves create_cert at once
Raise ==
    /\ pc' = "exit"
    /\ result' = "raised"

\* an exception inside the try block runs the finally clause first
RaiseInTry(e) ==
    /\ pc' = "finally"
    /\ exc' = e

\* lines 218-219
PrepareWebroot ==
    /\ pc = "idle"
    /\ \/ /\ pc' = "prepared"
          /\ dirs' = dirs \cup MkdirP(ChallengeDir(Resolve(webroot)))
          /\ UNCHANGED result
       \/ /\ Resolve(webroot) \notin dirs
          /\ Raise
          /\ UNCHANGED dirs
    /\ UNCHANGED <<files, modes, argVars, gateVars, serverVars, placeVars, issueVars,
                   exc, readiness>>
    /\ UNCHANGED <<loopVars, histVars, waitVars>>

\* run_server_in_thread, lines 160-168
RunServerInThread ==
    /\ pc = "prepared"
    /\ \/ /\ pc' = "started"
          /\ dirs' = dirs \cup MkdirP(ChallengeDir(Cwd))
          /\ server' = "serving"
          /\ thread' = "running"
          /\ starts' = starts + 1
          /\ UNCHANGED result
       \/ \* the port cannot be bound
          /\ Raise
          /\ dirs' = dirs \cup MkdirP(ChallengeDir(Cwd))
          /\ UNCHANGED <<server, thread, starts>>
    /\ UNCHANGED <<files, modes, argVars, gateVars, stops, placeVars, issueVars,
                   exc, readiness>>
    /\ UNCHANGED <<loopVars, histVars, waitVars>>

ShouldWaitNever(w) == FALSE

\* line 225
ShouldWait(w) == w # 0 /\ w > 0

\* lines 225-226; wait_for_server returns True or False and does not raise
WaitForServer ==
    /\ pc = "started"
    /\ pc' = "waited"
    /\ IF ShouldWait(wait_seconds)
       THEN readiness' \in {"ready", "timedout"}
       ELSE UNCHANGED readiness
    /\ UNCHANGED <<fsVars, argVars, gateVars, serverVars, placeVars, issueVars,
                   exc, result>>
    /\ UNCHANGED <<loopVars, histVars, waitVars>>

\* line 241
ResolveOutput ==
    /\ pc = "waited"
    /\ \E mk \in MkOutcomes(RequestedOut(webroot, output_dir, allow_in_webroot), dirs),
          fb \in {"ok", "error"}, chmod_ok \in BOOLEAN :
         /\ mk # "denied" => fb = "ok"
         /\ IF EnsureRaises(mk, fb)
            THEN /\ Raise
                 /\ UNCHANGED <<fsVars, placeVars>>
            ELSE /\ pc' = "resolved"
                 /\ Placed(mk, chmod_ok)
                 /\ UNCHANGED result
    /\ UNCHANGED <<argVars, gateVars, serverVars, issueVars, exc, readiness>>
    /\ UNCHANGED <<loopVars, histVars, waitVars>>

\* lines 242-247
MakeWorkDirs ==
    /\ pc = "resolved"
    /\ \/ /\ pc' = "workdirs"
          /\ dirs' = dirs \cup MkdirP(ConfigDir(out)) \cup MkdirP(WorkDir(out))
                          \cup MkdirP(LogsDir(out))
          /\ UNCHANGED result
       \/ /\ ConfigDir(out) \notin dirs
          /\ Raise
          /\ UNCHANGED dirs
    /\ UNCHANGED <<files, modes, argVars, gateVars, serverVars, placeVars, issueVars,
                   exc, readiness>>
    /\ UNCHANGED <<loopVars, histVars, waitVars>>

\* line 256, the call
InvokeIssuer ==
    /\ pc = "workdirs"
    /\ pc' = "issuer"
    /\ issuer_calls' = issuer_calls + 1
    /\ UNCHANGED <<fsVars, argVars, gateVars, serverVars, placeVars, exit_code, copied,
                   manifest, gitignore, warned, exc, result, readiness>>
    /\ UNCHANGED <<loopVars, histVars, waitVars>>

IssuerFailedNever(code) == FALSE

\* check=True: a non-zero exit raises CalledProcessError
IssuerFailed(code) == code # 0

\* what the issuer leaves in its live directory when it exits 0
LiveSets == {{}, ArtifactSet, {ArtifactNames[1], ArtifactNames[2]}, {PrivkeyPem}}
\* the mode the issuer gives the private key; the other files are 644
LiveKeyModes == {"600", "644"}
LiveMode(n, m) == IF n = PrivkeyPem THEN m ELSE "644"

\* line 256, the return
IssuerExit ==
    /\ pc = "issuer"
    /\ \E code \in {0, 1}, live \in LiveSets, m \in LiveKeyModes :
         /\ exit_code' = <<code>>
         /\ IF IssuerFailed(code)
            THEN /\ RaiseInTry("CalledProcessError")
                 /\ UNCHANGED fsVars
            ELSE /\ pc' = "issued"
                 /\ dirs' = IF live = {} THEN dirs ELSE dirs \cup MkdirP(LiveDir(out))
                 /\ files' = [p \in (DOMAIN files \ {Append(LiveDir(out), n) : n \in ArtifactSet})
                                     \cup {Append(LiveDir(out), n) : n \in live} |->
                                IF p \in {Append(LiveDir(out), n) : n \in live}
                                THEN "pem" ELSE files[p]]
                 /\ modes' = [p \in DOMAIN modes \cup {Append(LiveDir(out), n) : n \in live} |->
                                IF p \in {Append(LiveDir(out), n) : n \in live}
                                THEN LiveMode(p[Len(p)], m) ELSE modes[p]]
                 /\ UNCHANGED exc
    /\ UNCHANGED <<argVars, gateVars, serverVars, placeVars, issuer_calls, copied,
                   manifest, gitignore, warned, result, readiness>>
    /\ UNCHANGED <<loopVars, histVars, waitVars>>


\* the names among the first k of ArtifactNames whose source file exists
RECURSIVE Present(_, _, _)
Present(k, live, fs) ==
    IF k = 0 THEN <<>>
    ELSE LET before == Present(k - 1, live, fs) IN
         IF Append(live, ArtifactNames[k]) \in DOMAIN fs
         THEN Append(before, ArtifactNames[k])
         ELSE before

Range(s) == {s[i] : i \in 1..Len(s)}

\* shutil.copy2 of the names in `names` from live to dest: bytes and mode
CopyFiles(fs, live, dest, names) ==
    [p \in DOMAIN fs \cup {Append(dest, n) : n \in names} |->
        IF p \in {Append(dest, n) : n \in names}
        THEN fs[Append(live, p[Len(p)])] ELSE fs[p]]

CopyModes(ms, live, dest, names) ==
    [p \in DOMAIN ms \cup {Append(dest, n) : n \in names} |->
        IF p \in {Append(dest, n) : n \in names}
        THEN ModeOf(ms, Append(live, p[Len(p)]), "644") ELSE ms[p]]

\* lines 259-268: dest.mkdir raises, or k names are gone through before the
\* next copy raises; k = 4 is the loop running to its end
CopyArtifacts ==
    /\ pc = "issued"
    /\ LET live == LiveDir(out)
           dest == Dest(out)
       IN \/ /\ dest \notin dirs
             /\ RaiseInTry("OSError(dest)")
             /\ UNCHANGED <<fsVars, copied>>
          \/ \E k \in 0..Len(ArtifactNames) :
               LET done == Present(k, live, files) IN
               /\ k < Len(ArtifactNames) =>
                    Append(live, ArtifactNames[k + 1]) \in DOMAIN files
               /\ dirs' = dirs \cup MkdirP(dest)
               /\ files' = CopyFiles(files, live, dest, Range(done))
               /\ modes' = CopyModes(modes, live, dest, Range(done))
               /\ copied' = done
               /\ IF k = Len(ArtifactNames)
                  THEN pc' = "copied" /\ UNCHANGED exc
                  ELSE RaiseInTry("OSError(copy)")
    /\ UNCHANGED <<argVars, gateVars, serverVars, placeVars, issuer_calls, exit_code,
                   manifest, gitignore, warned, result, readiness>>
    /\ UNCHANGED <<loopVars, histVars, waitVars>>

NoManifest == [written |-> FALSE]

\* lines 273-278
Cfg(dest, live, fs) ==
    [written |-> TRUE,
     domain |-> Domain,
     certificate |-> IF Append(dest, ArtifactNames[1]) \in DOMAIN fs
                     THEN Append(dest, ArtifactNames[1]) ELSE NoPath,
     private_key |-> IF Append(dest, PrivkeyPem) \in DOMAIN fs
                     THEN Append(dest, PrivkeyPem) ELSE NoPath,
     source_live_dir |-> live]

\* lines 270-282 and 285-286
WriteManifest ==
    /\ pc = "copied"
    /\ IF copied # <<>>
       THEN \/ /\ manifest' = Cfg(Dest(out), LiveDir(out), files)
               /\ pc' = "manifested"
               /\ UNCHANGED <<warned, exc>>
            \/ \* open(cfg_path, 'w') raises
               /\ RaiseInTry("OSError(lb-config.json)")
               /\ UNCHANGED <<manifest, warned>>
       ELSE /\ warned' = TRUE
            /\ pc' = "placed"
            /\ UNCHANGED <<manifest, exc>>
    /\ UNCHANGED <<fsVars, argVars, gateVars, serverVars, placeVars, issuer_calls,
                   exit_code, copied, gitignore, result, readiness>>
    /\ UNCHANGED <<loopVars, histVars, waitVars>>

\* the chmod of one artifact, lines 149-157
RECURSIVE SecureFiles(_, _, _, _, _, _)
SecureFiles(ms, dest, fs, names, key_ok, other_ok) ==
    IF names = <<>> THEN ms
    ELSE LET p == Append(dest, Head(names))
             after == IF p \in DOMAIN fs
                      THEN IF Head(names) = PrivkeyPem
                           THEN Chmod(ms, p, "600", key_ok)
                           ELSE Chmod(ms, p, "644", other_ok)
                      ELSE ms
         IN SecureFiles(after, dest, fs, Tail(names), key_ok, other_ok)

\* every artifact is made world-readable
secure_cert_files_AllReadable(ms, dest, fs, dir_ok, key_ok, other_ok) ==
    LET names == {n \in ArtifactSet : Append(dest, n) \in DOMAIN fs}
        after == Chmod(ms, dest, "700", dir_ok)
    IN [p \in DOMAIN after \cup {Append(dest, n) : n \in names} |->
          IF p \in {Append(dest, n) : n \in names} THEN "644" ELSE after[p]]

\* _secure_cert_files, lines 141-157; every chmod may fail and is swallowed
secure_cert_files(ms, dest, fs, dir_ok, key_ok, other_ok) ==
    SecureFiles(Chmod(ms, dest, "700", dir_ok), dest, fs,
                <<PrivkeyPem, ArtifactNames[1], ArtifactNames[4], ArtifactNames[3]>>,
                key_ok, other_ok)

\* line 284
SecureCertFiles ==
    /\ pc = "manifested"
    /\ pc' = "placed"
    /\ \E dir_ok \in BOOLEAN, key_ok \in BOOLEAN, other_ok \in BOOLEAN :
         /\ modes' = secure_cert_files(modes, Dest(out), files, dir_ok, key_ok, other_ok)
         /\ chmod_failed' = ~(dir_ok /\ key_ok /\ other_ok)
    /\ UNCHANGED <<dirs, files, argVars, gateVars, serverVars, placeVars, issueVars,
                   exc, result, readiness>>
    /\ UNCHANGED <<loopVars, gi_prev, gi_updates, interrupts, waitVars>>

\* str(path)
PathStr(p) == <<"/">> \o JoinSlash(p)

\* line 290
GiEntries(o) ==
    << <<"# certbot / generated certs">>, PathStr(o) \o <<"/">>, <<"*", ".pem">>,
       <<"letsencrypt", "/">>, <<"letsencrypt-work", "/">>, <<"letsencrypt-logs", "/">> >>

IsMissingAlways(existing, e) == TRUE

\* line 298
IsMissing(existing, e) == ~Contains(e, existing)

\* lines 296-299
RECURSIVE ToAppend(_, _)
ToAppend(entries, existing) ==
    IF entries = <<>> THEN <<>>
    ELSE IF IsMissing(existing, Head(entries))
         THEN <<Head(entries)>> \o ToAppend(Tail(entries), existing)
         ELSE ToAppend(Tail(entries), existing)

\* '\n'.join(lines)
RECURSIVE JoinLines(_)
JoinLines(lines) ==
    IF lines = <<>> THEN <<>>
    ELSE IF Len(lines) = 1 THEN lines[1]
    ELSE lines[1] \o <<"\n">> \o JoinLines(Tail(lines))

NoGitignore == [exists |-> FALSE, text |-> <<>>]

\* lines 288-304
UpdateGitignore ==
    /\ pc = "placed"
    /\ LET existing == IF gitignore.exists THEN gitignore.text ELSE <<>>
           to_append == ToAppend(GiEntries(out), existing)
       IN \/ \* read_text raises
             /\ gitignore.exists
             /\ RaiseInTry("OSError(.gitignore read)")
             /\ UNCHANGED <<gitignore, gi_prev, gi_updates>>
          \/ \* open(gitignore, 'a') raises
             /\ to_append # <<>>
             /\ RaiseInTry("OSError(.gitignore write)")
             /\ UNCHANGED <<gitignore, gi_prev, gi_updates>>
          \/ /\ pc' = "finally"
             /\ gi_prev' = gitignore
             /\ gi_updates' = gi_updates + 1
             /\ gitignore' = IF to_append # <<>>
                             THEN [exists |-> TRUE,
                                   text |-> existing \o <<"\n">> \o JoinLines(to_append)
                                            \o <<"\n">>]
                             ELSE gitignore
             /\ UNCHANGED exc
    /\ UNCHANGED <<fsVars, argVars, gateVars, serverVars, placeVars, issuer_calls,
                   exit_code, copied, manifest, warned, result, readiness>>
    /\ UNCHANGED <<loopVars, chmod_failed, interrupts, waitVars>>

\* line 307, the call: shutdown() sets the flag the serve_forever loop reads
Shutdown ==
    /\ pc = "finally"
    /\ pc' = "shutting"
    /\ shutdown_request' = TRUE
    /\ stops' = stops + 1
    /\ UNCHANGED <<fsVars, argVars, gateVars, server, thread, starts, placeVars, issueVars,
                   exc, result, readiness>>
    /\ UNCHANGED <<is_shut_down, histVars, waitVars>>

\* line 164, the thread: serve_forever finds the flag set, leaves its loop,
\* clears the flag and sets the event; the thread's target has returned
ServeLoopExit ==
    /\ thread = "running"
    /\ shutdown_request
    /\ thread' = "exited"
    /\ server' = IF server = "serving" THEN "shutdown" ELSE server
    /\ shutdown_request' = FALSE
    /\ is_shut_down' = TRUE
    /\ UNCHANGED <<fsVars, argVars, gateVars, starts, stops, placeVars, issueVars, ctlVars>>
    /\ UNCHANGED <<histVars, waitVars>>

ShutdownNoWait(ev) == TRUE

\* shutdown() waits for the event
ShutdownWaitOver(ev) == ev

\* line 307, the return
ShutdownReturn ==
    /\ pc = "shutting"
    /\ ShutdownWaitOver(is_shut_down)
    /\ pc' = "closing"
    /\ UNCHANGED <<fsVars, argVars, gateVars, serverVars, placeVars, issueVars, exc,
                   result, readiness>>
    /\ UNCHANGED <<loopVars, histVars, waitVars>>

CloseSocketOnce(sock) == IF sock = "closed" THEN "error" ELSE "closed"

\* socket.close(); closing a closed socket does nothing
CloseSocket(sock) == "closed"

\* line 308
ServerClose ==
    /\ pc = "closing"
    /\ pc' = "joining"
    /\ server' = CloseSocket(server)
    /\ UNCHANGED <<fsVars, argVars, gateVars, thread, starts, stops, placeVars, issueVars,
                   exc, result, readiness>>
    /\ UNCHANGED <<loopVars, histVars, waitVars>>

\* line 309: join returns when the thread has exited or after the timeout;
\* then the return or the re-raise of the exception in flight
Join ==
    /\ pc = "joining"
    /\ pc' = "exit"
    /\ result' = IF exc = "none" THEN "returned" ELSE "raised"
    /\ UNCHANGED <<fsVars, argVars, gateVars, serverVars, placeVars, issueVars, exc,
                   readiness>>
    /\ UNCHANGED <<loopVars, histVars, waitVars>>

----------------------------------------------------------------------------
(* The handler at work while the server of a run is up *)

\* the issuer puts a token under <webroot>/.well-known/acme-challenge
IssuerWritesChallenge ==
    /\ server = "serving"
    /\ ~req.handled
    /\ \E b \in ChallengeBytes :
         files' = [p \in DOMAIN files \cup {Append(ChallengeDir(Resolve(webroot)), Tok)} |->
                     IF p = Append(ChallengeDir(Resolve(webroot)), Tok) THEN b ELSE files[p]]
    /\ UNCHANGED <<dirs, modes, argVars, gateVars, serverVars, placeVars, issueVars, ctlVars>>
    /\ UNCHANGED <<loopVars, histVars, waitVars>>

\* a request arrives
ReceiveRequest ==
    /\ server = "serving"
    /\ req = NoRequest
    /\ \E p \in RequestPaths, c \in Clients :
         req' = [path |-> p, client |-> c, handled |-> FALSE]
    /\ UNCHANGED <<fsVars, argVars, resp, serverVars, placeVars, issueVars, ctlVars>>
    /\ UNCHANGED <<loopVars, histVars, waitVars>>

\* the server hands it to ACMEHandler.do_GET
HandleRequest ==
    /\ server = "serving"
    /\ req # NoRequest
    /\ ~req.handled
    /\ resp' = do_GET(req.path, req.client, allowed_lb_ips, dirs, files)
    /\ req' = [req EXCEPT !.handled = TRUE]
    /\ UNCHANGED <<fsVars, argVars, serverVars, placeVars, issueVars, ctlVars>>
    /\ UNCHANGED <<loopVars, histVars, waitVars>>

----------------------------------------------------------------------------
(* wait_for_server, lines 171-206; time in whole seconds *)

\* line 184: timeout of one connection attempt
ConnTimeout == 5
\* line 194: the longest grace sleep
GraceCap == 5

Min(a, b) == IF a < b THEN a ELSE b

\* line 194
Grace(t) == Min(GraceCap, t)

\* a listener answers the attempt made at time t
Listening(up, t) == up # <<>> /\ up[1] <= t

\* what a failed attempt takes: refused at once, or no answer until the
\* connection times out
FailDelays == {0, ConnTimeout}

\* line 176
WaitCall ==
    /\ pc = "wait_call"
    /\ pc' = "wait_loop"
    /\ deadline' = now + timeout
    /\ UNCHANGED <<now, timeout, interval, up_at, ready>>
    /\ UNCHANGED <<fsVars, argVars, gateVars, serverVars, placeVars, issueVars, exc,
                   result, readiness, loopVars, histVars>>

\* line 180 is true; the attempt of lines 183-199 gets a response
WaitAttemptAnswered ==
    /\ pc = "wait_loop"
    /\ now < deadline
    /\ Listening(up_at, now)
    /\ now' = now + (IF Grace(timeout) > 0 THEN Grace(timeout) ELSE 0)
    /\ ready' = "true"
    /\ pc' = "wait_return"
    /\ UNCHANGED <<timeout, interval, deadline, up_at>>
    /\ UNCHANGED <<fsVars, argVars, gateVars, serverVars, placeVars, issueVars, exc,
                   result, readiness, loopVars, histVars>>

\* line 180 is true; the attempt raises, lines 200-203
WaitAttemptFailed ==
    /\ pc = "wait_loop"
    /\ now < deadline
    /\ ~Listening(up_at, now)
    /\ \E d \in FailDelays : now' = now + d + interval
    /\ UNCHANGED <<pc, timeout, interval, deadline, up_at, ready>>
    /\ UNCHANGED <<fsVars, argVars, gateVars, serverVars, placeVars, issueVars, exc,
                   result, readiness, loopVars, histVars>>

\* line 180 is false: lines 205-206
WaitTimedOut ==
    /\ pc = "wait_loop"
    /\ ~(now < deadline)
    /\ ready' = "false"
    /\ pc' = "wait_return"
    /\ UNCHANGED <<now, timeout, interval, deadline, up_at>>
    /\ UNCHANGED <<fsVars, argVars, gateVars, serverVars, placeVars, issueVars, exc,
                   result, readiness, loopVars, histVars>>

----------------------------------------------------------------------------
(* Specifications *)

InitProcess ==
    /\ server = "none"
    /\ thread = "none"
    /\ starts = 0
    /\ stops = 0
    /\ req = NoRequest
    /\ resp = NoResponse
    /\ out = NoPath
    /\ placement = "none"
    /\ readiness = "none"
    /\ issuer_calls = 0
    /\ exit_code = <<>>
    /\ copied = <<>>
    /\ manifest = NoManifest
    /\ exc = "none"
    /\ result = "running"
    /\ warned = FALSE
    /\ shutdown_request = FALSE
    /\ is_shut_down = FALSE
    /\ chmod_failed = FALSE
    /\ gi_prev = NoGitignore
    /\ gi_updates = 0
    /\ interrupts = 0

InitCommon ==
    /\ dirs = InitDirs
    /\ files = InitFiles
    /\ modes = << >>
    /\ InitProcess

\* wait_for_server is not running
InitWaitIdle ==
    /\ now = 0
    /\ timeout = 0
    /\ interval = 0
    /\ deadline = 0
    /\ up_at = <<>>
    /\ ready = "none"

DefaultOutputDir == <<".", "/", "certs">>

\* the handler under a cert run
InitGate ==
    /\ InitCommon
    /\ InitWaitIdle
    /\ pc = "idle"
    /\ allowed_lb_ips \in {{}, {LbIp}}
    /\ webroot \in WebrootArgs
    /\ output_dir = DefaultOutputDir
    /\ wait_seconds = 0
    /\ allow_in_webroot = TRUE
    /\ gitignore = NoGitignore

NextGate ==
    \/ PrepareWebroot
    \/ RunServerInThread
    \/ IssuerWritesChallenge
    \/ ReceiveRequest
    \/ HandleRequest

SpecGate == InitGate /\ [][NextGate]_vars

OutputDirArgs == {DefaultOutputDir, <<"/", "srv", "/", "out">>, <<"/", "srv", "/", "www", "/", "out">>}

InitGitignores == {NoGitignore, [exists |-> TRUE, text |-> <<"*", ".pem", "\n">>]}

\* create_cert, as the command line calls it
InitRun ==
    /\ InitCommon
    /\ InitWaitIdle
    /\ pc = "idle"
    /\ allowed_lb_ips = {LbIp}
    /\ webroot \in WebrootArgs
    /\ output_dir \in OutputDirArgs
    /\ wait_seconds \in {-1, 0, 120}
    /\ allow_in_webroot = TRUE
    /\ gitignore \in InitGitignores

NextRun ==
    \/ PrepareWebroot
    \/ RunServerInThread
    \/ WaitForServer
    \/ ResolveOutput
    \/ MakeWorkDirs
    \/ InvokeIssuer
    \/ IssuerExit
    \/ CopyArtifacts
    \/ WriteManifest
    \/ SecureCertFiles
    \/ UpdateGitignore
    \/ Shutdown
    \/ ServeLoopExit
    \/ ShutdownReturn
    \/ ServerClose
    \/ Join

SpecRun == InitRun /\ [][NextRun]_vars

PlaceWebroots ==
    {<<".">>, <<"/", "srv", "/", "www">>, <<"/", "srv", "/", "certs">>, <<"/">>,
     <<"/", "home", "/", "opc">>}
PlaceOutputs ==
    {DefaultOutputDir, <<"/", "srv", "/", "www", "/", "out">>, <<"/", "srv", "/", "certs">>,
     <<"/", "srv", "/", "certs", "/", "out">>, <<"/", "srv", "/", "out">>,
     <<"/", "srv", "/", "www", "/", "..", "/", "keys">>}

\* ensure_output_dir_safe on its own
InitPlace ==
    /\ InitCommon
    /\ InitWaitIdle
    /\ pc = "place_call"
    /\ allowed_lb_ips = {}
    /\ webroot \in PlaceWebroots
    /\ output_dir \in PlaceOutputs
    /\ wait_seconds = 0
    /\ allow_in_webroot \in BOOLEAN
    /\ gitignore = NoGitignore

NextPlace == PlaceCall

SpecPlace == InitPlace /\ [][NextPlace]_vars


Timeouts == {0, 3, 5, 12, 120}
Intervals == {1, 2}

\* wait_for_server on its own, called at time 0
InitWait ==
    /\ InitCommon
    /\ pc = "wait_call"
    /\ allowed_lb_ips = {}
    /\ webroot = <<".">>
    /\ output_dir = DefaultOutputDir
    /\ wait_seconds = 0
    /\ allow_in_webroot = TRUE
    /\ gitignore = NoGitignore
    /\ now = 0
    /\ timeout \in Timeouts
    /\ interval \in Intervals
    /\ deadline = 0
    /\ up_at \in {<<>>} \cup {<<t>> : t \in 0..MaxUpAt}
    /\ ready = "none"

NextWait ==
    \/ WaitCall
    \/ WaitAttemptAnswered
    \/ WaitAttemptFailed
    \/ WaitTimedOut

SpecWait == InitWait /\ [][NextWait]_vars

\* lines a .gitignore may hold before the first update
IgnoreLines ==
    << <<"node_modules", "/">>, <<"*", ".pem">>, <<"letsencrypt", "/">>,
       <<"/", "srv", "/", "app", "/", "certs", "/">>, <<"x", "letsencrypt-work", "/">>,
       <<"# certbot / generated certs">>, <<"letsencrypt-logs", "/">> >>

\* the text of the lines picked by `pick`, each ended by a newline
RECURSIVE TextOf(_, _)
TextOf(k, pick) ==
    IF k = 0 THEN <<>>
    ELSE TextOf(k - 1, pick) \o (IF k \in pick THEN IgnoreLines[k] \o <<"\n">> ELSE <<>>)

IgnoreTexts ==
    {NoGitignore} \cup
    {[exists |-> TRUE, text |-> TextOf(Len(IgnoreLines), pick)] :
        pick \in SUBSET (1..Len(IgnoreLines))}

IgnoreOuts == {Append(Cwd, Certs), <<Name("srv"), Name("out")>>,
               Append(Cwd, Name("letsencrypt"))}

\* the next cert run with the same output directory reaches line 288; nothing
\* in between writes ./.gitignore
RunAgain ==
    /\ pc = "finally"
    /\ exc = "none"
    /\ gi_updates < MaxUpdates
    /\ pc' = "placed"
    /\ UNCHANGED <<fsVars, argVars, gateVars, serverVars, placeVars, issueVars, exc,
                   result, readiness, loopVars, histVars, waitVars>>

\* cert runs that have reached the ignore-list update, line 288
InitIgnore ==
    /\ InitWaitIdle
    /\ out \in IgnoreOuts
    /\ dirs = InitDirs \cup MkdirP(out)
    /\ files = InitFiles
    /\ modes = << >>
    /\ allowed_lb_ips = {}
    /\ webroot = <<".">>
    /\ output_dir = DefaultOutputDir
    /\ wait_seconds = 0
    /\ allow_in_webroot = TRUE
    /\ req = NoRequest
    /\ resp = NoResponse
    /\ server = "serving"
    /\ thread = "running"
    /\ starts = 1
    /\ stops = 0
    /\ shutdown_request = FALSE
    /\ is_shut_down = FALSE
    /\ placement = "requested"
    /\ readiness = "none"
    /\ issuer_calls = 1
    /\ exit_code = <<0>>
    /\ copied = <<>>
    /\ manifest = NoManifest
    /\ warned = TRUE
    /\ chmod_failed = FALSE
    /\ gitignore \in IgnoreTexts
    /\ gi_prev = NoGitignore
    /\ gi_updates = 0
    /\ interrupts = 0
    /\ pc = "placed"
    /\ exc = "none"
    /\ result = "running"

NextIgnore ==
    \/ UpdateGitignore
    \/ RunAgain

SpecIgnore == InitIgnore /\ [][NextIgnore]_vars

\* the owner of the handle starts to stop the server, as lines 306-309 do
BeginStop ==
    /\ pc = "started"
    /\ pc' = "finally"
    /\ UNCHANGED <<fsVars, argVars, gateVars, serverVars, placeVars, issueVars, exc,
                   result, readiness, loopVars, histVars, waitVars>>

\* and stops it once more
StopAgain ==
    /\ pc = "exit"
    /\ starts > 0
    /\ 0 < stops /\ stops < MaxStops
    /\ pc' = "finally"
    /\ UNCHANGED <<fsVars, argVars, gateVars, serverVars, placeVars, issueVars, exc,
                   result, readiness, loopVars, histVars, waitVars>>

\* a background server that takes requests and is stopped by its owner
InitStop ==
    /\ InitCommon
    /\ InitWaitIdle
    /\ pc = "idle"
    /\ allowed_lb_ips = {LbIp}
    /\ webroot \in WebrootArgs
    /\ output_dir = DefaultOutputDir
    /\ wait_seconds = 0
    /\ allow_in_webroot = TRUE
    /\ gitignore = NoGitignore

NextStop ==
    \/ PrepareWebroot
    \/ RunServerInThread
    \/ ReceiveRequest
    \/ HandleRequest
    \/ BeginStop
    \/ Shutdown
    \/ ServeLoopExit
    \/ ShutdownReturn
    \/ ServerClose
    \/ Join
    \/ StopAgain

SpecStop == InitStop /\ [][NextStop]_vars

\* start_server, lines 312-322: the serving loop runs in the calling thread

\* lines 314-317
StartServer ==
    /\ pc = "fg_idle"
    /\ \/ /\ pc' = "fg_serving"
          /\ server' = "serving"
          /\ starts' = starts + 1
          /\ UNCHANGED result
       \/ \* the port cannot be bound
          /\ Raise
          /\ UNCHANGED <<server, starts>>
    /\ dirs' = dirs \cup MkdirP(ChallengeDir(Cwd))
    /\ UNCHANGED <<files, modes, argVars, gateVars, thread, stops, placeVars, issueVars,
                   exc, readiness, loopVars, histVars, waitVars>>

\* line 319 raises KeyboardInterrupt: serve_forever has left its loop
Interrupt ==
    /\ pc = "fg_serving"
    /\ pc' = "fg_except"
    /\ server' = "shutdown"
    /\ is_shut_down' = TRUE
    /\ interrupts' = interrupts + 1
    /\ UNCHANGED <<fsVars, argVars, gateVars, thread, starts, stops, placeVars, issueVars,
                   exc, result, readiness, shutdown_request, chmod_failed, gi_prev,
                   gi_updates, waitVars>>

ForegroundErrors == {"OSError(serve_forever)"}

\* line 319 raises another exception, which no except clause catches
ServeForeverRaises ==
    /\ pc = "fg_serving"
    /\ \E e \in ForegroundErrors : exc' = e
    /\ Raise
    /\ server' = "shutdown"
    /\ is_shut_down' = TRUE
    /\ UNCHANGED <<fsVars, argVars, gateVars, thread, starts, stops, placeVars, issueVars,
                   readiness, shutdown_request, histVars, waitVars>>

\* line 321, in the except clause; print raises when stdout is closed
PrintStopped ==
    /\ pc = "fg_except"
    /\ \/ /\ pc' = "fg_closing"
          /\ UNCHANGED <<exc, result>>
       \/ /\ exc' = "BrokenPipeError(print)"
          /\ Raise
    /\ UNCHANGED <<fsVars, argVars, gateVars, serverVars, placeVars, issueVars,
                   readiness, loopVars, histVars, waitVars>>

\* line 322, then the return
ForegroundClose ==
    /\ pc = "fg_closing"
    /\ pc' = "exit"
    /\ server' = CloseSocket(server)
    /\ stops' = stops + 1
    /\ result' = "returned"
    /\ UNCHANGED <<fsVars, argVars, gateVars, thread, starts, placeVars, issueVars,
                   exc, readiness, loopVars, histVars, waitVars>>

\* the server command
InitForeground ==
    /\ InitCommon
    /\ InitWaitIdle
    /\ pc = "fg_idle"
    /\ allowed_lb_ips \in {{}, {LbIp}}
    /\ webroot = <<".">>
    /\ output_dir = DefaultOutputDir
    /\ wait_seconds = 0
    /\ allow_in_webroot = TRUE
    /\ gitignore = NoGitignore

NextForeground ==
    \/ StartServer
    \/ ReceiveRequest
    \/ HandleRequest
    \/ Interrupt
    \/ ServeForeverRaises
    \/ PrintStopped
    \/ ForegroundClose

SpecForeground == InitForeground /\ [][NextForeground]_vars

\* what an earlier run for the same domain left in the per-domain directory
StaleSets == {{}, {ArtifactNames[1]}, ArtifactSet}
StaleDest(o) == Dest(Resolve(o))
StaleMode(n) == IF n = PrivkeyPem THEN "600" ELSE "644"

\* create_cert run again over the output directory of an earlier run
InitStale ==
    /\ InitProcess
    /\ InitWaitIdle
    /\ pc = "idle"
    /\ allowed_lb_ips = {LbIp}
    /\ webroot \in WebrootArgs
    /\ output_dir \in {DefaultOutputDir, <<"/", "srv", "/", "out">>}
    /\ wait_seconds = 0
    /\ allow_in_webroot = TRUE
    /\ gitignore \in InitGitignores
    /\ \E stale \in StaleSets :
         LET old == {Append(StaleDest(output_dir), n) : n \in stale} IN
         /\ dirs = InitDirs \cup (IF stale = {} THEN {} ELSE MkdirP(StaleDest(output_dir)))
         /\ files = [p \in DOMAIN InitFiles \cup old |->
                       IF p \in old THEN "oldpem" ELSE InitFiles[p]]
         /\ modes = [p \in old |-> StaleMode(p[Len(p)])]

SpecStale == InitStale /\ [][NextRun]_vars

----------------------------------------------------------------------------
(* Properties *)

NotFound == Response(<<404>>, "", "", FALSE)
Probe == Response(<<200>>, "text/plain", "OK", FALSE)

\* the file a request path names, taken from the serving root
Target(path) == FilePath(path, dirs, files)
NamesFile(path) == Target(path).ok /\ Target(path).path \in DOMAIN files

\* C1: once the run has started the server, the run does not return or raise
\* to its caller before the server was stopped exactly once.
C1_TeardownGuarantee ==
    result # "running" /\ starts > 0 => stops = 1

\* C2: a request whose path contains a denylist substring is answered 404
\* with nothing else, whatever the client address, the allow-set and the file
\* the path names.
C2_DenylistPrecedesAllowList ==
    req.handled /\ (\E p \in DenyPatterns : Contains(p, req.path)) => resp = NotFound

C2_Witness ==
    /\ req.handled
    /\ \E p \in DenyPatterns : Contains(p, req.path)
    /\ req.client \in allowed_lb_ips
    /\ StartsWith(req.path, ChallengePrefix)
    /\ NamesFile(req.path)
    /\ resp = NotFound

\* C3: a client outside the allow-set that asks for the non-denylisted path
\* /.well-known/acme-challenge/<token> is sent 200, text/plain and the bytes
\* of <webroot>/.well-known/acme-challenge/<token> whenever that file exists,
\* for every webroot of the run.
C3_ChallengeFromWebroot ==
    \A n \in {Tok, Secret} :
        LET f == Append(ChallengeDir(Resolve(webroot)), n) IN
        /\ req.handled
        /\ req.client \notin allowed_lb_ips
        /\ req.path = ChallengePrefix \o n
        /\ ~Denied(req.path)
        /\ f \in DOMAIN files
        => resp = Response(<<200>>, "text/plain", files[f], FALSE)

\* C4: a client outside the allow-set whose request path starts with the
\* challenge prefix and resolves to a place outside the serving root (a file
\* there, or nothing) is answered 404 and is sent no bytes.
C4_Containment ==
    /\ req.handled
    /\ req.client \notin allowed_lb_ips
    /\ StartsWith(req.path, ChallengePrefix)
    /\ ~IsWithin(Normalize(Cwd, PureParts(LStripSlash(req.path))), Cwd)
    /\ Target(req.path).path \notin dirs
    => resp = NotFound

\* C5: a client outside the allow-set that asks for a non-denylisted path is
\* sent exactly one status, 404, and an empty body whenever the path does not
\* start with the challenge prefix or names no existing regular file.
C5_NotFoundOtherwise ==
    /\ req.handled
    /\ req.client \notin allowed_lb_ips
    /\ ~Denied(req.path)
    /\ ~StartsWith(req.path, ChallengePrefix) \/ ~NamesFile(req.path)
    => resp = NotFound

\* C6: a client in the allow-set that asks for a path matching no denylist
\* substring is sent 200 and the body "OK", also when the path is a challenge
\* path that names an existing file.
C6_ProbeGetsOK ==
    req.handled /\ req.client \in allowed_lb_ips /\ ~Denied(req.path) => resp = Probe

C6_Witness ==
    /\ req.handled
    /\ req.client \in allowed_lb_ips
    /\ ~Denied(req.path)
    /\ StartsWith(req.path, ChallengePrefix)
    /\ NamesFile(req.path)
    /\ resp = Probe
    /\ files[Target(req.path).path] # "OK"

\* C7: the issuer is invoked only after the server was started and, when a
\* positive wait is configured, after the readiness wait has returned ready
\* or timed out; from the call of the issuer to its return the server is
\* serving and has not been stopped.
C7_IssuerOrdering ==
    /\ issuer_calls > 0 =>
         /\ starts = 1
         /\ wait_seconds > 0 => readiness \in {"ready", "timedout"}
    /\ pc = "issuer" => server = "serving" /\ thread = "running" /\ stops = 0

C7_Witness ==
    pc = "issuer" /\ wait_seconds > 0 /\ readiness = "timedout" /\ server = "serving"

\* C8: after the issuer has exited with a non-zero code it is not invoked
\* again, nothing is copied, no manifest and no ignore-list entry is written,
\* the run does not return normally, and it raises to its caller only with
\* the server stopped and closed.
C8_IssuerFailureFatal ==
    exit_code = <<1>> =>
        /\ issuer_calls = 1
        /\ pc \in {"finally", "shutting", "closing", "joining", "exit"}
        /\ exc = "CalledProcessError"
        /\ copied = <<>>
        /\ manifest = NoManifest
        /\ gitignore \in InitGitignores
        /\ result # "returned"
        /\ result = "raised" => stops = 1 /\ server = "closed" /\ thread = "exited"

C8_Witness ==
    exit_code = <<1>> /\ result = "raised" /\ server = "closed" /\ stops = 1

\* C9: with allow_in_webroot false and the requested output directory equal
\* to the webroot or nested under it, the directory substituted is
\* parent(webroot)/certs, a sibling of the webroot, and is neither the
\* webroot nor a descendant of it.
C9_SubstitutedOutsideWebroot ==
    /\ pc = "place_return"
    /\ ~allow_in_webroot
    /\ IsWithin(Resolve(output_dir), Resolve(webroot))
    /\ placement = "substituted"
    => /\ out = Append(DirName(Resolve(webroot)), Certs)
       /\ out # Resolve(webroot)
       /\ Resolve(webroot) \notin Parents(out)

\* C10: the output directory a cert run uses for the issuer's working
\* directories and the copied private key is neither the webroot nor nested
\* inside it.
C10_OutputOutsideWebroot ==
    out # NoPath =>
        /\ out # Resolve(webroot)
        /\ Resolve(webroot) \notin Parents(out)


\* C11: wait_for_server, called at time 0, returns true no later than
\* `timeout` seconds after the call whenever a listener starts to answer
\* before the deadline, and returns false when no listener ever answers.
C11_ReadyWithinTimeout ==
    pc = "wait_return" =>
        /\ up_at # <<>> /\ up_at[1] < deadline => ready = "true" /\ now <= timeout
        /\ up_at = <<>> => ready = "false"


GitignoreErrors == {"OSError(.gitignore read)", "OSError(.gitignore write)"}

\* C12: after the issuer has exited 0, a run in which nothing failed but
\* permission hardening or the reading or writing of the ignore-list file
\* ends as a success: the failure is not raised to the caller.
C12_ToleratedFailures ==
    /\ exit_code = <<0>>
    /\ result # "running"
    /\ exc = "none" \/ exc \in GitignoreErrors
    => result = "returned"


\* the permissions a mode grants
ModeBits(m) ==
    CASE m = "600" -> {"ur", "uw"}
      [] m = "644" -> {"ur", "uw", "gr", "or"}
      [] m = "700" -> {"ur", "uw", "ux"}

StricterThan(a, b) == ModeBits(a) \subseteq ModeBits(b) /\ ModeBits(a) # ModeBits(b)

AllLive == \A n \in ArtifactSet : Append(LiveDir(out), n) \in DOMAIN files

\* the run is past the copy, the manifest and the hardening, none of which raised
ArtifactsPlaced ==
    /\ exit_code = <<0>>
    /\ pc \in {"placed", "finally", "shutting", "closing", "joining", "exit"}
    /\ exc \notin {"OSError(dest)", "OSError(copy)", "OSError(lb-config.json)"}

Hardened ==
    /\ \A n \in ArtifactSet : Append(Dest(out), n) \in DOMAIN files
    /\ modes[Append(Dest(out), PrivkeyPem)] = "600"
    /\ \A n \in ArtifactSet \ {PrivkeyPem} :
         /\ modes[Append(Dest(out), n)] = "644"
         /\ StricterThan(modes[Append(Dest(out), PrivkeyPem)], modes[Append(Dest(out), n)])
    /\ manifest.written
    /\ manifest.certificate = Append(Dest(out), ArtifactNames[1])
    /\ manifest.private_key = Append(Dest(out), PrivkeyPem)
    /\ manifest.certificate \in DOMAIN files
    /\ manifest.private_key \in DOMAIN files

EntrySet(o) == {GiEntries(o)[i] : i \in 1..Len(GiEntries(o))}

\* the entries of the block that do not occur in the text
Absent(o, text) == SelectSeq(GiEntries(o), LAMBDA e : ~Contains(e, text))

\* C14: an ignore-list update appends exactly the entries of the block that
\* do not occur in the file, after it every entry of the block occurs in the
\* file, and a second update with the same output directory leaves the file
\* as it is.
C14_IgnoreIdempotent ==
    /\ gi_updates >= 1 =>
         /\ \A e \in EntrySet(out) : Contains(e, gitignore.text)
         /\ \/ Absent(out, gi_prev.text) = <<>> /\ gitignore = gi_prev
            \/ /\ Absent(out, gi_prev.text) # <<>>
               /\ gitignore.exists
               /\ gitignore.text = gi_prev.text \o <<"\n">>
                                   \o JoinLines(Absent(out, gi_prev.text)) \o <<"\n">>
    /\ gi_updates >= 2 => gitignore = gi_prev

C14_Witness ==
    /\ gi_updates = 2
    /\ gitignore = gi_prev
    /\ Contains(<<"x", "letsencrypt-work", "/">>, gitignore.text)
    /\ Len(gitignore.text) > Len(TextOf(Len(IgnoreLines), 1..Len(IgnoreLines)))


\* C15: the second stop of the same server handle does not block in
\* shutdown(), raises nothing, and leaves the serving loop ended and the
\* socket closed.
C15_StopTwice ==
    stops >= 2 =>
        /\ thread = "exited"
        /\ pc = "shutting" => is_shut_down
        /\ server \in {"shutdown", "closed"}
        /\ pc \in {"joining", "exit"} => server = "closed"
        /\ exc = "none"
        /\ result \in {"running", "returned"}
        /\ pc = "exit" => result = "returned"

C15_Witness ==
    stops = 2 /\ pc = "exit" /\ result = "returned" /\ server = "closed" /\ req.handled

NoneLive == \A n \in ArtifactSet : Append(LiveDir(out), n) \notin DOMAIN files

\* C16: a run whose issuer exited 0 and left none of the four files in the
\* live directory ends with the warning printed, no manifest written, the
\* ignore-list entries in place, the server stopped, and no exception raised.
C16_MissingArtifactsNotFatal ==
    /\ exit_code = <<0>>
    /\ NoneLive
    /\ pc = "exit"
    /\ exc # "OSError(dest)"
    => /\ warned
       /\ manifest = NoManifest
       /\ \A e \in EntrySet(out) : Contains(e, gitignore.text)
       /\ stops = 1 /\ server = "closed"
       /\ result = "returned"

\* C19: once the copy and the manifest step are over, the manifest has been
\* written exactly when this run copied an artifact, and its certificate
\* (private_key) field is set exactly when this run copied fullchain.pem
\* (privkey.pem).
C19_ManifestFromThisRun ==
    ArtifactsPlaced =>
        /\ manifest.written <=> copied # <<>>
        /\ manifest.written =>
             /\ manifest.certificate # NoPath <=> ArtifactNames[1] \in Range(copied)
             /\ manifest.private_key # NoPath <=> PrivkeyPem \in Range(copied)

\* C17: a foreground server that was started ends with its socket closed,
\* whatever ended it, and when an interrupt was received it ends by
\* returning, with no exception raised.
C17_ForegroundReleases ==
    pc = "exit" /\ starts = 1 /\ thread = "none" =>
        /\ server = "closed"
        /\ interrupts >= 1 => result = "returned" /\ exc = "none"

====
